---- MODULE Spec2Model ----
(***************************************************************************)
(* A model of beautify_git_hash.py: the canonicalizer (commit_to_format),  *)
(* the bounded search (find_beautiful_git_hash), the auto-prefix policy    *)
(* (proposed_prefix) and the caller show_proposal_for_git_head.            *)
(*                                                                         *)
(* Python strings are sequences of one-character strings; "\n" is the line *)
(* terminator and the token "NUL" stands for the byte \x00.                *)
(***************************************************************************)
EXTENDS Integers, Sequences, FiniteSets, TLC

\* ------------------------------------------------------------------------
\* Bounds of the model
\* ------------------------------------------------------------------------

\* max_minutes ranges over 0..MaxMinutes (its default, 30, makes 1622701
\* candidates for one search and is not enumerated)
MaxMinutes == 1

\* the digest stand-in is one of the functions numbered 0..MaxSeed
MaxSeed == 1

\* number of hex characters of a digest in the model
DigestLen == 3

\* number_length ranges over 1..MaxNumberLength
MaxNumberLength == 4

\* ------------------------------------------------------------------------
\* Program constants
\* ------------------------------------------------------------------------

\* xrange(max_minutes * 60 + 1)
SecondsPerMinute == 60

\* def proposed_prefix(previous_commit, number_length=4)
DefaultNumberLength == 4

\* ------------------------------------------------------------------------
\* Characters and strings
\* ------------------------------------------------------------------------

DigitChars == <<"0", "1", "2", "3", "4", "5", "6", "7", "8", "9">>

HexChars == DigitChars \o <<"a", "b", "c", "d", "e", "f">>

LowerChars ==
    <<"a", "b", "c", "d", "e", "f", "g", "h", "i", "j", "k", "l", "m",
      "n", "o", "p", "q", "r", "s", "t", "u", "v", "w", "x", "y", "z">>

Range(s) == {s[i] : i \in 1..Len(s)}

IndexOf(ch, s) == CHOOSE i \in 1..Len(s) : s[i] = ch

\* str.find(ch) + 1 for a character that occurs in s
FirstIndex(s, ch) ==
    LET at == {k \in 1..Len(s) : s[k] = ch}
    IN  CHOOSE k \in at : \A j \in at : k <= j

\* the byte values of the characters the commits are made of (ASCII)
OrdTable ==
    [ch \in Range(DigitChars) |-> 47 + IndexOf(ch, DigitChars)]
        @@ [ch \in Range(LowerChars) |-> 96 + IndexOf(ch, LowerChars)]
        @@ ("NUL" :> 0) @@ ("\n" :> 10) @@ (" " :> 32) @@ ("%" :> 37)
        @@ ("(" :> 40) @@ (")" :> 41) @@ ("+" :> 43) @@ ("-" :> 45)
        @@ ("<" :> 60) @@ (">" :> 62) @@ ("A" :> 65) @@ ("C" :> 67)
        @@ ("_" :> 95)

Ord(ch) == OrdTable[ch]

\* str.startswith
StartsWith(s, p) == Len(p) <= Len(s) /\ SubSeq(s, 1, Len(p)) = p

\* str.split(sep) for a one-character separator
RECURSIVE Split(_, _)
Split(s, sep) ==
    IF sep \notin Range(s) THEN <<s>>
    ELSE LET i == FirstIndex(s, sep)
         IN  <<SubSeq(s, 1, i - 1)>> \o Split(SubSeq(s, i + 1, Len(s)), sep)

\* sep.join(parts)
RECURSIVE Join(_, _)
Join(parts, sep) ==
    IF Len(parts) = 0 THEN <<>>
    ELSE IF Len(parts) = 1 THEN parts[1]
    ELSE parts[1] \o <<sep>> \o Join(Tail(parts), sep)

\* the escaping left out
ReplacePercentNot(s) == s

\* line.replace('%', '%%')
RECURSIVE ReplacePercent(_)
ReplacePercent(s) ==
    IF "%" \notin Range(s) THEN s
    ELSE LET i == FirstIndex(s, "%")
         IN  SubSeq(s, 1, i - 1) \o <<"%", "%">>
                 \o ReplacePercent(SubSeq(s, i + 1, Len(s)))

IsDecimal(w) == Len(w) > 0 /\ \A i \in 1..Len(w) : w[i] \in Range(DigitChars)

\* int(w) for a string of decimal digits
RECURSIVE ParseInt(_)
ParseInt(w) ==
    IF Len(w) = 0 THEN 0
    ELSE 10 * ParseInt(SubSeq(w, 1, Len(w) - 1))
         + (IndexOf(w[Len(w)], DigitChars) - 1)

\* '%i' % n and str(n) for n >= 0
RECURSIVE IntToDecimal(_)
IntToDecimal(n) ==
    IF n < 10 THEN <<DigitChars[n + 1]>>
    ELSE IntToDecimal(n \div 10) \o <<DigitChars[(n % 10) + 1]>>

\* ------------------------------------------------------------------------
\* Canonicalizer
\* ------------------------------------------------------------------------

AuthorKey ==
    <<"a", "u", "t", "h", "o", "r", "_", "d", "a", "t", "e", "_",
      "t", "i", "m", "e", "s", "t", "a", "m", "p">>

CommitterKey ==
    <<"c", "o", "m", "m", "i", "t", "t", "e", "r", "_", "d", "a", "t", "e", "_",
      "t", "i", "m", "e", "s", "t", "a", "m", "p">>

AuthorWord == <<"a", "u", "t", "h", "o", "r">>

CommitterWord == <<"c", "o", "m", "m", "i", "t", "t", "e", "r">>

\* '%(key)i'
Placeholder(key) == <<"%", "(">> \o key \o <<")", "i">>

\* aggregate_values = {}
EmptyValues ==
    [author_date_timestamp |-> -1, author_date_tz |-> <<"unset">>,
     committer_date_timestamp |-> -1, committer_date_tz |-> <<"unset">>,
     raised |-> FALSE]

\* words with words[-2] replaced
SetSecondLast(words, w) == [words EXCEPT ![Len(words) - 1] = w]

\* commit_line_to_format: the format line and the updated aggregate_values.
\* format_words[-2] of a one-word line (IndexError) and int() of a word that
\* is no decimal number (ValueError) raise: raised is set.
commit_line_to_format(line, aggregate_values) ==
    LET format_words == Split(ReplacePercent(line), " ")
        n == Len(format_words)
        bad == n < 2 \/ ~IsDecimal(format_words[n - 1])
    IN  IF format_words[1] = AuthorWord THEN
            IF bad THEN [format |-> line,
                         values |-> [aggregate_values EXCEPT !.raised = TRUE]]
            ELSE [format |-> Join(SetSecondLast(format_words,
                                                Placeholder(AuthorKey)), " "),
                  values |-> [aggregate_values EXCEPT
                      !.author_date_timestamp = ParseInt(format_words[n - 1]),
                      !.author_date_tz = format_words[n]]]
        ELSE IF format_words[1] = CommitterWord THEN
            IF bad THEN [format |-> line,
                         values |-> [aggregate_values EXCEPT !.raised = TRUE]]
            ELSE [format |-> Join(SetSecondLast(format_words,
                                                Placeholder(CommitterKey)), " "),
                  values |-> [aggregate_values EXCEPT
                      !.committer_date_timestamp = ParseInt(format_words[n - 1]),
                      !.committer_date_tz = format_words[n]]]
        ELSE [format |-> Join(format_words, " "), values |-> aggregate_values]

\* the generator of commit_to_format, line by line, threading aggregate_values
RECURSIVE FormatLines(_, _)
FormatLines(lines, aggregate_values) ==
    IF Len(lines) = 0 THEN [formats |-> <<>>, values |-> aggregate_values]
    ELSE LET first == commit_line_to_format(Head(lines), aggregate_values)
             rest == FormatLines(Tail(lines), first.values)
         IN  [formats |-> <<first.format>> \o rest.formats,
              values |-> rest.values]

\* commit_to_format: (commit_format, aggregate_values)
commit_to_format(commit) ==
    LET r == FormatLines(Split(commit, "\n"), EmptyValues)
    IN  [commit_format |-> Join(r.formats, "\n"), values |-> r.values]

\* the result of a '%' formatting that raises
FormatError == <<"FORMAT_ERROR">>

\* the value the mapping gives for a key, or -1 (KeyError)
Lookup(values, key) ==
    IF key = AuthorKey THEN values.author_date_timestamp
    ELSE IF key = CommitterKey THEN values.committer_date_timestamp
    ELSE -1

\* fmt % values for a mapping: '%%' is a literal '%', '%(key)i' the decimal
\* of values[key]; any other use of '%' raises
RECURSIVE PercentFormat(_, _)
PercentFormat(fmt, values) ==
    IF "%" \notin Range(fmt) THEN fmt
    ELSE
        LET at == FirstIndex(fmt, "%")
            before == SubSeq(fmt, 1, at - 1)
            spec == SubSeq(fmt, at, Len(fmt))
        IN  IF Len(spec) >= 2 /\ spec[2] = "%" THEN
                LET rest == PercentFormat(SubSeq(spec, 3, Len(spec)), values)
                IN  IF rest = FormatError THEN FormatError
                    ELSE before \o <<"%">> \o rest
            ELSE IF Len(spec) >= 2 /\ spec[2] = "(" /\ ")" \in Range(spec) THEN
                LET close == FirstIndex(spec, ")")
                    key == SubSeq(spec, 3, close - 1)
                IN  IF /\ close < Len(spec)
                       /\ spec[close + 1] = "i"
                       /\ Lookup(values, key) >= 0
                    THEN LET rest == PercentFormat(
                                 SubSeq(spec, close + 2, Len(spec)), values)
                         IN  IF rest = FormatError THEN FormatError
                             ELSE before \o IntToDecimal(Lookup(values, key))
                                      \o rest
                    ELSE FormatError
            ELSE FormatError

\* ------------------------------------------------------------------------
\* Digest
\* ------------------------------------------------------------------------

\* hashlib.sha1 is not computed: each seed stands for one deterministic
\* function from byte strings to DigestLen-character hex digests. Every hex
\* character of the digest is a weighted sum of all bytes of the object, the
\* weights depending on the byte's position and on the digest character, so
\* every byte and the length of the object change the digest.
RECURSIVE Weighted(_, _, _, _)
Weighted(bytes, lo, hi, j) ==
    IF lo > hi THEN 0
    ELSE IF lo = hi THEN Ord(bytes[lo]) * (((lo * j) % 7) + 1)
    ELSE LET mid == (lo + hi) \div 2
         IN  Weighted(bytes, lo, mid, j) + Weighted(bytes, mid + 1, hi, j)

hexdigest(object, seed) ==
    [j \in 1..DigestLen |->
        HexChars[((Weighted(object, 1, Len(object), j) + seed * j) % 16) + 1]]

\* 'commit %i\x00%s' % (len(commit), commit)
CommitObject(commit) ==
    <<"c", "o", "m", "m", "i", "t", " ">>
        \o IntToDecimal(Len(commit)) \o <<"NUL">> \o commit

git_commit_hash(commit, seed) == hexdigest(CommitObject(commit), seed)

\* ------------------------------------------------------------------------
\* The stored commit objects
\* ------------------------------------------------------------------------

\* the serialized form git cat-file prints for a commit with these fields
CommitText(h) ==
    <<"t", "r", "e", "e", " ", "0", "\n">>
        \o AuthorWord \o <<" ">> \o h.author_name \o <<" ">>
        \o h.author_timestamp \o <<" ">> \o h.author_tz \o <<"\n">>
        \o CommitterWord \o <<" ">> \o h.committer_name \o <<" ">>
        \o h.committer_timestamp \o <<" ">> \o h.committer_tz \o <<"\n">>
        \o <<"\n">> \o h.message \o <<"\n">>

\* the commit of the module docstring's example: both timestamps 1317498857 +0200
DocstringHead ==
    [author_name |-> <<"A">>,
     author_timestamp |-> <<"1", "3", "1", "7", "4", "9", "8", "8", "5", "7">>,
     author_tz |-> <<"+", "0", "2", "0", "0">>,
     committer_name |-> <<"A">>,
     committer_timestamp |-> <<"1", "3", "1", "7", "4", "9", "8", "8", "5", "7">>,
     committer_tz |-> <<"+", "0", "2", "0", "0">>,
     message |-> <<"m">>]

\* different timestamps and timezones, a '%' in the name and in the message;
\* the committer timestamp gains a digit at offset 1
PercentHead ==
    [author_name |-> <<"A", " ", "<", "a", "%", ">">>,
     author_timestamp |-> <<"9", "5">>,
     author_tz |-> <<"-", "0", "5", "0", "0">>,
     committer_name |-> <<"C">>,
     committer_timestamp |-> <<"9", "9">>,
     committer_tz |-> <<"+", "0", "0", "0", "0">>,
     message |-> <<"9", "%", "i">>]

Heads == {DocstringHead, PercentHead}

\* the empty prefix, every one-character prefix, and longer ones
ValidPrefixes ==
    {<<>>} \cup {<<HexChars[i]>> : i \in 1..Len(HexChars)}
        \cup {<<"1", "f">>, <<"0", "a", "1">>}

\* a character outside 0-9a-f first, last, in the middle, alone, and upper case
InvalidPrefixes ==
    {<<"g">>, <<"0", "g">>, <<"g", "0">>, <<"0", "g", "0">>, <<"A">>,
     <<"a", "b", "C">>}

Prefixes == ValidPrefixes \cup InvalidPrefixes

\* ------------------------------------------------------------------------
\* State
\* ------------------------------------------------------------------------

VARIABLES
    pc,                     \* position in the program
    head,                   \* the fields of the commit object HEAD names
    seed,                   \* which digest function the run uses
    prefix,                 \* the prefix argument
    max_minutes,            \* the max_minutes argument
    old_commit,             \* load_git_commit('HEAD')
    commit_format,          \* find_beautiful_git_hash: commit_format
    old_values,             \* find_beautiful_git_hash: old_values
    committer_date_offset,  \* the outer loop variable
    author_date_offset,     \* the inner loop variable
    result,                 \* what find_beautiful_git_hash returned
    output,                 \* the lines printed
    beautiful,              \* git_commit_hash(commit).startswith(prefix)
    digests,                \* number of calls of git_commit_hash so far
    rebuilt,                \* commit_format % old_values
    previous_resolves,      \* whether git rev-parse of previous_commit succeeds
    previous_commit_hash,   \* the identifier it prints
    number_length,          \* proposed_prefix: number_length
    new_number              \* proposed_prefix: new_number

vars ==
    <<pc, head, seed, prefix, max_minutes, old_commit, commit_format,
      old_values, committer_date_offset, author_date_offset, beautiful,
      result, output, digests, rebuilt, previous_resolves, previous_commit_hash,
      number_length, new_number>>

searchVars ==
    <<old_commit, commit_format, old_values, committer_date_offset,
      author_date_offset, beautiful, result, output, digests, rebuilt>>

inputVars == <<head, seed, prefix, max_minutes>>

prefixVars ==
    <<previous_resolves, previous_commit_hash, number_length, new_number>>

Unset == <<"UNSET">>

NotReturned == [kind |-> "unset", committer_date |-> <<>>, author_date |-> <<>>]

\* return None
None == [kind |-> "None", committer_date |-> <<>>, author_date |-> <<>>]

\* ------------------------------------------------------------------------
\* find_beautiful_git_hash
\* ------------------------------------------------------------------------

\* prefix.lstrip(chars)
RECURSIVE LStrip(_, _)
LStrip(s, chars) ==
    IF s # <<>> /\ Head(s) \in Range(chars) THEN LStrip(Tail(s), chars) ELSE s

ALLOWED_PREFIX_CHARACTERS == HexChars

\* a validation that looks at the first character only
ValidPrefixFirstOnly(p) ==
    IF Len(p) = 0 THEN TRUE ELSE p[1] \in Range(ALLOWED_PREFIX_CHARACTERS)

\* the negation of the test that raises 'Invalid prefix!'
ValidPrefix(p) == LStrip(p, ALLOWED_PREFIX_CHARACTERS) = <<>>

\* xrange(max_minutes * 60): the + 1 left out
LastCommitterOffsetShort(minutes) == minutes * SecondsPerMinute - 1

\* the last value of xrange(max_minutes * 60 + 1)
LastCommitterOffset(minutes) == minutes * SecondsPerMinute

\* xrange(committer_date_offset): the + 1 left out
LastAuthorOffsetShort(committer_offset) == committer_offset - 1

\* xrange(max_minutes * 60 + 1) for the inner loop too
LastAuthorOffsetFull(committer_offset) == max_minutes * SecondsPerMinute

\* the last value of xrange(committer_date_offset + 1)
LastAuthorOffset(committer_offset) == committer_offset

\* new_values
NewValues(values, author_offset, committer_offset) ==
    [values EXCEPT
        !.author_date_timestamp = values.author_date_timestamp + author_offset,
        !.committer_date_timestamp =
            values.committer_date_timestamp + committer_offset]

\* commit = commit_format % new_values
Candidate(author_offset, committer_offset) ==
    PercentFormat(commit_format,
                  NewValues(old_values, author_offset, committer_offset))

\* git_commit_hash(commit).startswith(prefix)
Beautiful(author_offset, committer_offset) ==
    StartsWith(git_commit_hash(Candidate(author_offset, committer_offset), seed),
               prefix)

\* the two branches of the no-op test exchanged
IsNoOpInverted(author_offset, committer_offset) ==
    ~(author_offset = 0 /\ committer_offset = 0)

\* author_date_offset == committer_date_offset == 0
IsNoOp(author_offset, committer_offset) ==
    author_offset = committer_offset /\ committer_offset = 0

\* '%i %s' % (timestamp, tz)
DateString(timestamp, tz) == IntToDecimal(timestamp) \o <<" ">> \o tz

\* the two timezone strings exchanged
ProposalSwappedTz(new_values, values) ==
    [kind |-> "proposal",
     committer_date |->
         DateString(new_values.committer_date_timestamp, values.author_date_tz),
     author_date |->
         DateString(new_values.author_date_timestamp, values.committer_date_tz)]

\* the dictionary returned for a match that is no no-op
Proposal(new_values, values) ==
    [kind |-> "proposal",
     committer_date |->
         DateString(new_values.committer_date_timestamp, values.committer_date_tz),
     author_date |->
         DateString(new_values.author_date_timestamp, values.author_date_tz)]

Init ==
    /\ pc = "load"
    /\ head \in Heads
    /\ seed \in 0..MaxSeed
    /\ prefix \in Prefixes
    /\ max_minutes \in 0..MaxMinutes
    /\ old_commit = Unset
    /\ commit_format = Unset
    /\ old_values = EmptyValues
    /\ committer_date_offset = 0
    /\ author_date_offset = 0
    /\ beautiful = FALSE
    /\ result = NotReturned
    /\ output = <<>>
    /\ digests = 0
    /\ rebuilt = Unset
    /\ previous_resolves = FALSE
    /\ previous_commit_hash = <<>>
    /\ number_length = DefaultNumberLength
    /\ new_number = 0

\* old_commit = load_git_commit('HEAD')
LoadCommit ==
    /\ pc = "load"
    /\ old_commit' = CommitText(head)
    /\ pc' = "validate"
    /\ UNCHANGED <<inputVars, prefixVars, commit_format, old_values,
                   committer_date_offset, author_date_offset, beautiful,
                   result, output, digests, rebuilt>>

\* raise Exception('Invalid prefix! ...')
RejectPrefix ==
    /\ pc = "validate"
    /\ ~ValidPrefix(prefix)
    /\ pc' = "invalid_prefix"
    /\ UNCHANGED <<inputVars, prefixVars, searchVars>>

\* commit_format, old_values = commit_to_format(old_commit), and the first
\* values of the two loop variables
Canonicalize ==
    /\ pc = "validate"
    /\ ValidPrefix(prefix)
    /\ LET r == commit_to_format(old_commit)
       IN  /\ commit_format' = r.commit_format
           /\ old_values' = r.values
           /\ pc' = IF r.values.raised THEN "malformed" ELSE "hash"
    /\ committer_date_offset' = 0
    /\ author_date_offset' = 0
    /\ UNCHANGED <<inputVars, prefixVars, old_commit, beautiful, result,
                   output, digests, rebuilt>>

\* the loop body up to the test: new_values, commit, and the digest's test
HashCandidate ==
    /\ pc = "hash"
    /\ beautiful' = Beautiful(author_date_offset, committer_date_offset)
    /\ digests' = digests + 1
    /\ pc' = "test"
    /\ UNCHANGED <<inputVars, prefixVars, old_commit, commit_format, old_values,
                   committer_date_offset, author_date_offset, result, output,
                   rebuilt>>

\* the candidate matches at offsets (0, 0): return None
ReturnNone ==
    /\ pc = "test"
    /\ beautiful
    /\ IsNoOp(author_date_offset, committer_date_offset)
    /\ result' = None
    /\ pc' = "returned"
    /\ UNCHANGED <<inputVars, prefixVars, old_commit, commit_format, old_values,
                   committer_date_offset, author_date_offset, beautiful, output,
                   digests, rebuilt>>

\* the candidate matches at other offsets: return the two dates
ReturnProposal ==
    /\ pc = "test"
    /\ beautiful
    /\ ~IsNoOp(author_date_offset, committer_date_offset)
    /\ result' = Proposal(NewValues(old_values, author_date_offset,
                                    committer_date_offset), old_values)
    /\ pc' = "returned"
    /\ UNCHANGED <<inputVars, prefixVars, old_commit, commit_format, old_values,
                   committer_date_offset, author_date_offset, beautiful, output,
                   digests, rebuilt>>

\* no match, and the inner xrange has a next value
NextAuthorOffset ==
    /\ pc = "test"
    /\ ~beautiful
    /\ author_date_offset < LastAuthorOffset(committer_date_offset)
    /\ author_date_offset' = author_date_offset + 1
    /\ pc' = "hash"
    /\ UNCHANGED <<inputVars, prefixVars, old_commit, commit_format, old_values,
                   committer_date_offset, beautiful, result, output, digests,
                   rebuilt>>

\* no match, the inner xrange is used up and the outer one has a next value
NextCommitterOffset ==
    /\ pc = "test"
    /\ ~beautiful
    /\ author_date_offset >= LastAuthorOffset(committer_date_offset)
    /\ committer_date_offset < LastCommitterOffset(max_minutes)
    /\ committer_date_offset' = committer_date_offset + 1
    /\ author_date_offset' = 0
    /\ pc' = "hash"
    /\ UNCHANGED <<inputVars, prefixVars, old_commit, commit_format, old_values,
                   beautiful, result, output, digests, rebuilt>>

\* no match and both xranges are used up:
\* raise Exception('Unable to find beautiful hash!')
Exhausted ==
    /\ pc = "test"
    /\ ~beautiful
    /\ author_date_offset >= LastAuthorOffset(committer_date_offset)
    /\ committer_date_offset >= LastCommitterOffset(max_minutes)
    /\ pc' = "exhausted"
    /\ UNCHANGED <<inputVars, prefixVars, old_commit, commit_format, old_values,
                   committer_date_offset, author_date_offset, beautiful, result,
                   output, digests, rebuilt>>

\* show_proposal_for_git_head: print 'Nothing to do'
PrintNothingToDo ==
    /\ pc = "returned"
    /\ result = None
    /\ output' = <<"Nothing to do">>
    /\ pc' = "done"
    /\ UNCHANGED <<inputVars, prefixVars, old_commit, commit_format, old_values,
                   committer_date_offset, author_date_offset, beautiful, result,
                   digests, rebuilt>>

\* show_proposal_for_git_head: print 'Proposal:' and the git command with
\* the two dates
PrintProposal ==
    /\ pc = "returned"
    /\ result # None
    /\ output' = <<"Proposal:", result.committer_date, result.author_date>>
    /\ pc' = "done"
    /\ UNCHANGED <<inputVars, prefixVars, old_commit, commit_format, old_values,
                   committer_date_offset, author_date_offset, beautiful, result,
                   digests, rebuilt>>

Next ==
    \/ LoadCommit
    \/ RejectPrefix
    \/ Canonicalize
    \/ HashCandidate
    \/ ReturnNone
    \/ ReturnProposal
    \/ NextAuthorOffset
    \/ NextCommitterOffset
    \/ Exhausted
    \/ PrintNothingToDo
    \/ PrintProposal

Spec == Init /\ [][Next]_vars

\* ------------------------------------------------------------------------
\* What the claims speak of
\* ------------------------------------------------------------------------

\* max_minutes * 60
MaxOffset == max_minutes * SecondsPerMinute

\* the timestamps the stored commit carries
BaseAuthorTimestamp == ParseInt(head.author_timestamp)

BaseCommitterTimestamp == ParseInt(head.committer_timestamp)

HasReturned == result # NotReturned

IsProposal == result.kind = "proposal"

\* the timestamp of a 'timestamp timezone' string
DateTimestamp(date) == ParseInt(Split(date, " ")[1])

\* the offsets a result stands for: read off the proposal's dates, (0, 0) for None
ResultAuthorOffset ==
    IF IsProposal THEN DateTimestamp(result.author_date) - BaseAuthorTimestamp
    ELSE 0

ResultCommitterOffset ==
    IF IsProposal THEN DateTimestamp(result.committer_date) - BaseCommitterTimestamp
    ELSE 0

\* (c1, a1) is not after (c2, a2), committer offset first
LexLeq(c1, a1, c2, a2) == c1 < c2 \/ (c1 = c2 /\ a1 <= a2)

\* the stored commit with its two timestamps moved forward
ShiftedCommit(author_offset, committer_offset) ==
    CommitText([head EXCEPT
        !.author_timestamp = IntToDecimal(BaseAuthorTimestamp + author_offset),
        !.committer_timestamp =
            IntToDecimal(BaseCommitterTimestamp + committer_offset)])

\* number of pairs (a, c) with 0 <= a <= c <= n
PairCount(n) == ((n + 1) * (n + 2)) \div 2

HasInvalidCharacter(p) == \E i \in 1..Len(p) : p[i] \notin Range(HexChars)

\* C1: a returned result stands for the lexicographically smallest pair
\* (committer offset first, then author offset) among all pairs
\* 0 <= author offset <= committer offset <= max_minutes * 60 whose candidate's
\* digest starts with the prefix.
C1_Minimality ==
    HasReturned =>
        LET a == ResultAuthorOffset
            c == ResultCommitterOffset
        IN  /\ 0 <= a /\ a <= c /\ c <= MaxOffset
            /\ Beautiful(a, c)
            /\ \A c2 \in 0..MaxOffset : \A a2 \in 0..c2 :
                   LexLeq(c, a, c2, a2) \/ ~Beautiful(a2, c2)

\* a proposal was returned although a later pair matches too
C1_Witness ==
    /\ IsProposal
    /\ ResultAuthorOffset > 0
    /\ \E c2 \in (ResultCommitterOffset + 1)..MaxOffset : Beautiful(0, c2)

\* C2: when the digest of the unmodified commit starts with the valid prefix,
\* the search returns None, never a proposal, and 'Nothing to do' is printed.
C2_NoOpCorrect ==
    (pc \in {"returned", "done", "exhausted"} \/ HasReturned) =>
        (StartsWith(git_commit_hash(CommitText(head), seed), prefix) =>
            /\ result = None
            /\ pc \in {"returned", "done"}
            /\ pc = "done" => output = <<"Nothing to do">>)

\* a non-empty prefix the unmodified commit already has
C2_Witness ==
    /\ pc = "done"
    /\ prefix # <<>>
    /\ output = <<"Nothing to do">>
    /\ StartsWith(git_commit_hash(CommitText(head), seed), prefix)

\* C3: a prefix with a character outside 0-9a-f, wherever it stands, is
\* rejected before the commit is canonicalized and before any digest is
\* computed; nothing is returned and nothing printed.
C3_InvalidPrefixRejected ==
    HasInvalidCharacter(prefix) =>
        /\ pc \in {"load", "validate", "invalid_prefix"}
        /\ commit_format = Unset
        /\ digests = 0
        /\ result = NotReturned
        /\ output = <<>>

\* the invalid character in the middle, after a valid one
C3_Witness ==
    /\ pc = "invalid_prefix"
    /\ prefix = <<"0", "g", "0">>

\* the program has exited
Terminated == pc \in {"done", "exhausted", "invalid_prefix", "malformed"}

\* a number every step of the program increases
Progress ==
    CASE pc = "load" -> 0
      [] pc = "validate" -> 1
      [] pc = "test" -> 2 * digests + 1
      [] pc = "done" -> 2 * digests + 3
      [] OTHER -> 2 * digests + 2

\* C4: the search never hangs: every step increases Progress, and Progress is
\* bounded by the number of pairs, so a run ends after at most that many
\* steps. A run that returns found a matching pair, so when no pair matches
\* the run ends with 'Unable to find beautiful hash!', having computed exactly
\* one digest for each of the (N+1)(N+2)/2 pairs, N = max_minutes * 60, with
\* nothing returned or printed.
C4_ExhaustionSafety ==
    /\ pc = "hash" =>
           digests = PairCount(committer_date_offset - 1) + author_date_offset
    /\ pc = "test" =>
           digests = PairCount(committer_date_offset - 1) + author_date_offset + 1
    /\ pc = "exhausted" =>
           /\ digests = PairCount(MaxOffset)
           /\ result = NotReturned
           /\ output = <<>>
    /\ HasReturned =>
           Beautiful(ResultAuthorOffset, ResultCommitterOffset)
    /\ Progress <= 2 * PairCount(MaxOffset) + 3
    /\ Terminated => pc # "malformed"

\* C4, with termination: the facts above hold in every state, and every
\* step increases Progress.
C4_Exhaustion ==
    /\ []C4_ExhaustionSafety
    /\ [][Progress' > Progress]_vars

\* the whole space of a non-zero max_minutes was searched in vain
C4_Witness ==
    /\ pc = "exhausted"
    /\ max_minutes >= 1
    /\ digests = PairCount(MaxOffset)

\* C6: in every proposal both timestamps are at least their base values,
\* neither is increased by more than max_minutes * 60 seconds, and the author
\* timestamp's increase is at most the committer timestamp's.
C6_SaneTimestamps ==
    IsProposal =>
        /\ DateTimestamp(result.author_date) >= BaseAuthorTimestamp
        /\ DateTimestamp(result.committer_date) >= BaseCommitterTimestamp
        /\ ResultAuthorOffset <= MaxOffset
        /\ ResultCommitterOffset <= MaxOffset
        /\ ResultAuthorOffset <= ResultCommitterOffset

\* a proposal that moves both timestamps by the same non-zero amount
C6_Witness ==
    /\ IsProposal
    /\ ResultAuthorOffset = ResultCommitterOffset
    /\ ResultCommitterOffset > 0

\* C7: a proposal is built from the pair (a, c) whose candidate matched:
\* committer_date is the decimal of the base committer timestamp + c, a space
\* and the stored committer timezone, author_date the same for the author;
\* the commit with exactly these dates has a digest that starts with the
\* prefix, and the same two dates are printed.
C7_ProposalContent ==
    IsProposal =>
        LET a == author_date_offset
            c == committer_date_offset
        IN  /\ beautiful
            /\ result.committer_date =
                   IntToDecimal(BaseCommitterTimestamp + c) \o <<" ">>
                       \o head.committer_tz
            /\ result.author_date =
                   IntToDecimal(BaseAuthorTimestamp + a) \o <<" ">>
                       \o head.author_tz
            /\ StartsWith(git_commit_hash(ShiftedCommit(a, c), seed), prefix)
            /\ pc = "done" =>
                   output = <<"Proposal:", result.committer_date, result.author_date>>

\* a printed proposal for the commit whose two timezones differ
C7_Witness ==
    /\ pc = "done"
    /\ IsProposal
    /\ head.author_tz # head.committer_tz
    /\ author_date_offset > 0

\* C9 as claimed: a pair evaluated later never has a smaller total shift, and
\* with an equal committer offset the smaller author offset comes first.
\* (Stated for each pair and the one evaluated next; the order of any two
\* evaluated pairs follows by transitivity.)
C9_TotalShiftOrder ==
    [][(pc = "test" /\ pc' = "hash") =>
          /\ author_date_offset' + committer_date_offset'
                 >= author_date_offset + committer_date_offset
          /\ committer_date_offset' = committer_date_offset =>
                 author_date_offset' > author_date_offset]_vars

\* C9 as amended: the pairs are evaluated in increasing lexicographic order of
\* (committer offset, author offset), each pair followed by its successor among
\* the pairs with author offset <= committer offset.
C9_LexicographicOrder ==
    [][(pc = "test" /\ pc' = "hash") =>
          \/ /\ committer_date_offset' = committer_date_offset
             /\ author_date_offset' = author_date_offset + 1
             /\ author_date_offset' <= committer_date_offset'
          \/ /\ author_date_offset = committer_date_offset
             /\ committer_date_offset' = committer_date_offset + 1
             /\ author_date_offset' = 0]_vars

\* (3, 0), total shift 3, is about to be evaluated after (2, 2), total shift 4
C9_Witness ==
    /\ pc = "hash"
    /\ committer_date_offset = 3
    /\ author_date_offset = 0
    /\ digests = PairCount(2)

\* ------------------------------------------------------------------------
\* commit_to_format and the substitution of the values it extracted
\* ------------------------------------------------------------------------

PlainName == <<"A">>

PercentName == <<"A", " ", "<", "a", "%", ">">>

DocstringTimestamp == <<"1", "3", "1", "7", "4", "9", "8", "8", "5", "7">>

\* a timestamp git would not write: zero-padded
PaddedTimestamp == <<"0", "0", "7">>

\* messages: plain, with '%' alone, doubled, as a conversion and as the very
\* placeholder of the template, of several lines, with a line whose first word
\* only begins with the letters of 'author', and two that are no well-formed
\* commit: a second line whose first word is 'author'
Messages ==
    {<<"m">>,
     <<"9", "%", "i">>,
     <<"%">>,
     <<"%", "%", " ", "%", "s">>,
     Placeholder(AuthorKey),
     <<"a", "\n", "\n", "5", "%", "\n">>,
     <<"a", "u", "t", "h", "o", "r", "s", " ", "1", " ", "2">>,
     <<"a", "u", "t", "h", "o", "r", " ", "1", " ", "2">>,
     <<"a", "u", "t", "h", "o", "r">>}

FormatHeads ==
    [author_name : {PlainName, PercentName},
     author_timestamp : {<<"0">>, <<"9", "5">>, DocstringTimestamp, PaddedTimestamp},
     author_tz : {<<"+", "0", "2", "0", "0">>, <<"-", "0", "5", "0", "0">>},
     committer_name : {<<"C">>, <<"%", "d">>},
     committer_timestamp : {<<"9", "9">>, DocstringTimestamp},
     committer_tz : {<<"+", "0", "0", "0", "0">>},
     message : Messages]

FormatInit ==
    /\ pc = "format"
    /\ head \in FormatHeads
    /\ old_commit = CommitText(head)
    /\ seed = 0
    /\ prefix = <<>>
    /\ max_minutes = 0
    /\ commit_format = Unset
    /\ old_values = EmptyValues
    /\ committer_date_offset = 0
    /\ author_date_offset = 0
    /\ beautiful = FALSE
    /\ result = NotReturned
    /\ output = <<>>
    /\ digests = 0
    /\ rebuilt = Unset
    /\ previous_resolves = FALSE
    /\ previous_commit_hash = <<>>
    /\ number_length = DefaultNumberLength
    /\ new_number = 0

\* commit_format, old_values = commit_to_format(old_commit)
FormatCommit ==
    /\ pc = "format"
    /\ ~commit_to_format(old_commit).values.raised
    /\ LET r == commit_to_format(old_commit)
       IN  /\ commit_format' = r.commit_format
           /\ old_values' = r.values
    /\ pc' = "formatted"
    /\ UNCHANGED <<inputVars, prefixVars, old_commit, committer_date_offset,
                   author_date_offset, beautiful, result, output, digests,
                   rebuilt>>

\* commit_line_to_format raises on a line (IndexError, ValueError)
FormatRaises ==
    /\ pc = "format"
    /\ commit_to_format(old_commit).values.raised
    /\ pc' = "malformed"
    /\ UNCHANGED <<inputVars, prefixVars, searchVars>>

\* commit_format % old_values: the candidate of offsets (0, 0)
Resubstitute ==
    /\ pc = "formatted"
    /\ rebuilt' = Candidate(0, 0)
    /\ pc' = "resubstituted"
    /\ UNCHANGED <<inputVars, prefixVars, old_commit, commit_format, old_values,
                   committer_date_offset, author_date_offset, beautiful, result,
                   output, digests>>

FormatNext == FormatCommit \/ FormatRaises \/ Resubstitute

FormatSpec == FormatInit /\ [][FormatNext]_vars

\* the lines of a commit whose first word is w
LinesOf(commit, w) ==
    LET lines == Split(commit, "\n")
    IN  {i \in 1..Len(lines) : Split(lines[i], " ")[1] = w}

\* a decimal number as git writes it: digits, no leading zero
CanonicalDecimal(w) == IsDecimal(w) /\ (Len(w) > 1 => w[1] # "0")

\* exactly one author line and one committer line, each with a timestamp as
\* git writes it
WellFormed(h) ==
    /\ Cardinality(LinesOf(CommitText(h), AuthorWord)) = 1
    /\ Cardinality(LinesOf(CommitText(h), CommitterWord)) = 1
    /\ CanonicalDecimal(h.author_timestamp)
    /\ CanonicalDecimal(h.committer_timestamp)

SampleHexChars == {"0", "7", "9", "a"}

\* output.rstrip('\n')
RECURSIVE RStripNewline(_)
RStripNewline(s) ==
    IF s # <<>> /\ s[Len(s)] = "\n" THEN RStripNewline(SubSeq(s, 1, Len(s) - 1))
    ELSE s

\* s.ljust(width, fill): padding on the wrong side
RECURSIVE LJust(_, _, _)
LJust(s, width, fill) ==
    IF Len(s) >= width THEN s ELSE LJust(s \o <<fill>>, width, fill)

\* s.rjust(width, fill)
RECURSIVE RJust(_, _, _)
RJust(s, width, fill) ==
    IF Len(s) >= width THEN s ELSE RJust(<<fill>> \o s, width, fill)

\* previous_commit_hash[:number_length]
NumberPart(hash, length) ==
    SubSeq(hash, 1, IF length < Len(hash) THEN length ELSE Len(hash))

PrefixInit ==
    /\ pc = "rev_parse"
    /\ number_length \in 1..MaxNumberLength
    /\ previous_resolves \in BOOLEAN
    /\ previous_commit_hash \in
           IF previous_resolves
           THEN [1..(MaxNumberLength + 1) -> SampleHexChars]
           ELSE {<<>>}
    /\ new_number = 0
    /\ prefix = <<>>
    /\ head = DocstringHead
    /\ seed = 0
    /\ max_minutes = 0
    /\ old_commit = Unset
    /\ commit_format = Unset
    /\ old_values = EmptyValues
    /\ committer_date_offset = 0
    /\ author_date_offset = 0
    /\ beautiful = FALSE
    /\ result = NotReturned
    /\ output = <<>>
    /\ digests = 0
    /\ rebuilt = Unset

\* git rev-parse fails: except subprocess.CalledProcessError: new_number = 1
RevParseFails ==
    /\ pc = "rev_parse"
    /\ ~previous_resolves
    /\ new_number' = 1
    /\ pc' = "pad"
    /\ UNCHANGED <<inputVars, searchVars, previous_resolves,
                   previous_commit_hash, number_length>>

\* new_number = int(previous_commit_hash[:number_length], 10) + 1
ParseNumber ==
    /\ pc = "rev_parse"
    /\ previous_resolves
    /\ LET output_text == previous_commit_hash \o <<"\n">>
           digits == NumberPart(RStripNewline(output_text), number_length)
       IN  /\ IsDecimal(digits)
           /\ new_number' = ParseInt(digits) + 1
    /\ pc' = "pad"
    /\ UNCHANGED <<inputVars, searchVars, previous_resolves,
                   previous_commit_hash, number_length>>

\* int() raises ValueError on a character a-f; nothing catches it
ParseRaises ==
    /\ pc = "rev_parse"
    /\ previous_resolves
    /\ LET output_text == previous_commit_hash \o <<"\n">>
           digits == NumberPart(RStripNewline(output_text), number_length)
       IN  ~IsDecimal(digits)
    /\ pc' = "value_error"
    /\ UNCHANGED <<inputVars, searchVars, prefixVars>>

\* return str(new_number).rjust(number_length, '0') + 'a'
ReturnPrefix ==
    /\ pc = "pad"
    /\ prefix' = RJust(IntToDecimal(new_number), number_length, "0") \o <<"a">>
    /\ pc' = "proposed"
    /\ UNCHANGED <<head, seed, max_minutes, searchVars, prefixVars>>

PrefixNext == RevParseFails \/ ParseNumber \/ ParseRaises \/ ReturnPrefix

PrefixSpec == PrefixInit /\ [][PrefixNext]_vars

\* the characters of a proposed prefix before its last one
NumberOf(p) == SubSeq(p, 1, Len(p) - 1)

\* C8: when the previous reference does not resolve the prefix is the number 1,
\* and when the identifier's first number_length characters are the decimal
\* digits of n it is the number n + 1; the number is written in decimal,
\* left-padded with zeros to number_length characters and followed by 'a':
\* 0001a for no previous commit, 0008a after 0007.
C8_AutoPrefixSequence ==
    pc = "proposed" =>
        LET digits == NumberPart(previous_commit_hash, number_length)
            n == IF previous_resolves THEN ParseInt(digits) ELSE 0
            number == NumberOf(prefix)
        IN  /\ prefix # <<>> /\ prefix[Len(prefix)] = "a"
            /\ IsDecimal(number)
            /\ ParseInt(number) = n + 1
            /\ Len(number) >= number_length
            /\ Len(number) > number_length => number[1] # "0"
            /\ (~previous_resolves /\ number_length = 4) =>
                   prefix = <<"0", "0", "0", "1", "a">>
            /\ (previous_resolves /\ digits = <<"0", "0", "0", "7">>) =>
                   prefix = <<"0", "0", "0", "8", "a">>

\* 0008a was proposed after an identifier that starts with 0007
C8_Witness ==
    /\ pc = "proposed"
    /\ previous_resolves
    /\ NumberPart(previous_commit_hash, number_length) = <<"0", "0", "0", "7">>
    /\ prefix = <<"0", "0", "0", "8", "a">>

\* C10 as claimed: every proposed prefix is exactly number_length decimal
\* digits followed by 'a', and passes the prefix validation of the search.
C10_FixedWidth ==
    pc = "proposed" =>
        /\ Len(prefix) = number_length + 1
        /\ IsDecimal(NumberOf(prefix))
        /\ prefix[Len(prefix)] = "a"
        /\ ValidPrefix(prefix)

====
